---- MODULE Spec2Model ----
(***************************************************************************)
(* Model of met-damm-liquidity-shaker: the retry() helper of helpers.ts    *)
(* and the open/close position cycle of main.ts against a ledger whose     *)
(* reads lag behind its confirmed writes.                                  *)
(*                                                                         *)
(* SpecRetry : retry() called directly with any options and any callback   *)
(*             (the callback's outcome per invocation is a script).        *)
(* Spec      : main(), createPosition() and closePosition(), which call    *)
(*             retry() with the read-positions callback.                   *)
(***************************************************************************)
EXTENDS Integers, Sequences, FiniteSets, TLC

VARIABLES
    \* ---- retry(callback, options): helpers.ts 219-257
    options,        \* the destructured RetryOptions (defaults applied)
    callback,       \* which callback retry() was given: "script" | "readPositions" | "none"
    script,         \* script[n] = TRUE when invocation n of a scripted callback succeeds
    rpc,            \* position inside retry()
    attempt,        \* loop variable `attempt`
    delay,          \* local `delay`
    lastError,      \* local `lastError`
    result,         \* value retry() returned
    thrown,         \* error retry() threw
    calls,          \* callback invocations started so far
    inFlight,       \* callback invocations started and not yet settled
    timers,         \* pending setTimeout timers of sleep()
    waits,          \* arguments of the sleep() calls made, in order
    console,        \* console.log lines written by retry()
    cancelRequested, \* a caller asked to abort while retry() was waiting
    \* ---- main(): main.ts 23-96
    loop,           \* the --loop flag
    envOk,          \* loadEnv() finds RPC_URL and a 64-byte SECRET_KEY
    pc,             \* position inside main() / createPosition() / closePosition()
    iteration,      \* iterations of `while (true)` started
    userPositions,  \* result of the pre-check read (line 46)
    position,       \* local `position`
    poolState,      \* local `poolState` (the pool price it carries)
    depositQuote,   \* local `depositQuote`
    failure,        \* the error caught at line 87
    exitCode,       \* "running", 0 (main returned) or 1 (process.exit(1))
    createMaxRetries, \* maxRetries createPosition() passes to retry()
    slippage,       \* the latest direct call addSlippage(amount, slippageBps) and its result
    \* ---- the ledger behind cpAmm / connection
    ledger,         \* the owner's positions on the ledger, in listing order
    view,           \* what reads still return while the last write has not propagated
    lag,            \* reads that will still return `view`
    createLag,      \* the lag the ledger chose when it confirmed the create
    stateVersion,   \* the state (liquidity, fees, vesting) the ledger now holds for the positions
    nextId,         \* next fresh position identity (Keypair.generate())
    txInFlight,     \* writes sent and not yet confirmed or rejected
    writes,         \* writes submitted in this iteration, as the ledger received them
    ops,            \* ledger operations of this iteration, in order
    lastRead        \* the list the latest getPositionsByUser returned

retryVars == <<options, callback, script, rpc, attempt, delay, lastError, result,
               thrown, calls, inFlight, timers, waits, console, cancelRequested>>

mainVars == <<loop, envOk, pc, iteration, userPositions, position, poolState,
              depositQuote, failure, exitCode, createMaxRetries, slippage>>

ledgerVars == <<ledger, view, lag, createLag, stateVersion, nextId, txInFlight, writes,
                ops, lastRead>>

vars == <<retryVars, mainVars, ledgerVars>>

\* ------------------------------------------------------------------ bounds
MaxRetriesBound == 3
MaxInitialDelay == 2
MaxMaxDelay == 4
MaxMultiplier == 3

\* ------------------------------------------------------------- constants
DEFAULT_INITIAL_DELAY == 100
DEFAULT_MAX_DELAY == 30000
DEFAULT_BACKOFF_MULTIPLIER == 2

\* --------------------------------------------------------------- values
Undefined == [kind |-> "undefined", n |-> 0]

\* What invocation n of a scripted callback resolves to / rejects with:
\* every invocation has its own value and its own error.
CallbackValue(n) == [kind |-> "value", n |-> n]
CallbackError(n) == [kind |-> "error", n |-> n]

Min(a, b) == IF a <= b THEN a ELSE b

\* --------------------------------------------------------- retry() pieces
\* Line 238: the loop condition.
LoopCondition(a, mr) == a <= mr

CaughtErrorKeepsFirst(prev, err) == IF prev.kind = "undefined" THEN err ELSE prev

\* Line 247: lastError = error.
CaughtError(prev, err) == err

IsLastAttemptOffByOne(a, mr) == a = mr + 1

\* Line 248: if (attempt === maxRetries) throw lastError.
IsLastAttempt(a, mr) == a = mr

AppliedWaitUncapped(d, cap) == d

\* Line 251: sleep(Math.min(delay, maxDelay)).
AppliedWait(d, cap) == Min(d, cap)

\* Line 252: delay *= backoffMultiplier.
NextDelay(d, m) == d * m

\* Lines 223-236: destructure the options, initialise the locals, log when debug.
RetryEnter(cb, opts) ==
    /\ options' = opts
    /\ callback' = cb
    /\ lastError' = Undefined
    /\ delay' = opts.initialDelay
    /\ attempt' = 0
    /\ result' = Undefined
    /\ thrown' = Undefined
    /\ calls' = 0
    /\ inFlight' = 0
    /\ timers' = 0
    /\ waits' = <<>>
    /\ console' = IF opts.debug THEN <<"maxRetries">> ELSE <<>>
    /\ cancelRequested' = FALSE
    /\ rpc' = "loop"

SleepNotAwaited == TRUE

SleepCutShortByCancel == timers = 0 \/ cancelRequested

\* Line 251: `await sleep(...)` resumes only once the timer has fired.
SleepSettled == timers = 0

\* Lines 238-240: the loop test, then the callback is invoked and awaited.
\* Line 256: the loop ended without a return or a throw.
RetryAttempt ==
    /\ rpc = "loop"
    /\ IF LoopCondition(attempt, options.maxRetries)
          THEN /\ calls' = calls + 1
               /\ inFlight' = inFlight + 1
               /\ rpc' = "calling"
               /\ UNCHANGED thrown
          ELSE /\ thrown' = lastError
               /\ rpc' = "thrown"
               /\ UNCHANGED <<calls, inFlight>>
    /\ UNCHANGED <<options, callback, script, attempt, delay, lastError, result,
                   timers, waits, console, cancelRequested>>
    /\ UNCHANGED <<mainVars, ledgerVars>>

OnResolvedWithoutReturn(v) ==
    /\ inFlight' = inFlight - 1
    /\ console' = IF options.debug THEN Append(console, "result...") ELSE console
    /\ result' = v
    /\ attempt' = attempt + 1
    /\ rpc' = IF attempt = options.maxRetries THEN "returned" ELSE "loop"
    /\ UNCHANGED <<options, callback, script, delay, lastError, thrown,
                   calls, timers, waits, cancelRequested>>

\* Lines 240-244: the callback resolved with v.
OnResolved(v) ==
    /\ inFlight' = inFlight - 1
    /\ console' = IF options.debug THEN Append(console, "result...") ELSE console
    /\ result' = v
    /\ rpc' = "returned"
    /\ UNCHANGED <<options, callback, script, attempt, delay, lastError, thrown,
                   calls, timers, waits, cancelRequested>>

\* Lines 245-251: the callback rejected with e.
OnRejected(e) ==
    /\ inFlight' = inFlight - 1
    /\ console' = Append(console, "Retry failed...")
    /\ lastError' = CaughtError(lastError, e)
    /\ IF IsLastAttempt(attempt, options.maxRetries)
          THEN /\ thrown' = lastError'
               /\ rpc' = "thrown"
               /\ UNCHANGED <<timers, waits>>
          ELSE /\ waits' = Append(waits, AppliedWait(delay, options.maxDelay))
               /\ timers' = timers + 1
               /\ rpc' = "sleeping"
               /\ UNCHANGED thrown
    /\ UNCHANGED <<options, callback, script, attempt, delay, result, calls,
                   cancelRequested>>

\* Line 265: the setTimeout of sleep() fires and resolves its promise.
TimerFires ==
    /\ timers > 0
    /\ timers' = timers - 1
    /\ UNCHANGED <<options, callback, script, rpc, attempt, delay, lastError, result,
                   thrown, calls, inFlight, waits, console, cancelRequested>>
    /\ UNCHANGED <<mainVars, ledgerVars>>

\* Lines 251-252 and 238: the awaited sleep is over; grow the delay, attempt++.
RetryResume ==
    /\ rpc = "sleeping"
    /\ SleepSettled
    /\ delay' = NextDelay(delay, options.backoffMultiplier)
    /\ attempt' = attempt + 1
    /\ rpc' = "loop"
    /\ UNCHANGED <<options, callback, script, lastError, result, thrown, calls,
                   inFlight, timers, waits, console, cancelRequested>>
    /\ UNCHANGED <<mainVars, ledgerVars>>

\* A caller wants to abort the wait. retry() takes a callback and RetryOptions
\* only (lines 219-222, 204-210): the request reaches no code.
RequestCancel ==
    /\ rpc = "sleeping"
    /\ ~cancelRequested
    /\ cancelRequested' = TRUE
    /\ UNCHANGED <<options, callback, script, rpc, attempt, delay, lastError, result,
                   thrown, calls, inFlight, timers, waits, console>>
    /\ UNCHANGED <<mainVars, ledgerVars>>

\* ------------------------------------------------- retry() called directly
ScriptLen == MaxRetriesBound + 1

\* RetryOptions after the defaults of lines 223-229 are applied: a field the
\* caller leaves out takes its default (debug: false).
OptionSet ==
    [maxRetries : (-1)..MaxRetriesBound,
     initialDelay : (0..MaxInitialDelay) \cup {DEFAULT_INITIAL_DELAY},
     maxDelay : (0..MaxMaxDelay) \cup {DEFAULT_MAX_DELAY},
     backoffMultiplier : (1..MaxMultiplier) \cup {DEFAULT_BACKOFF_MULTIPLIER},
     debug : BOOLEAN]

\* The scripted callback settles: invocation n resolves iff script[n].
ScriptedCallbackSettles ==
    /\ rpc = "calling"
    /\ callback = "script"
    /\ IF script[calls]
          THEN OnResolved(CallbackValue(calls))
          ELSE OnRejected(CallbackError(calls))
    /\ UNCHANGED <<mainVars, ledgerVars>>

\* retry(callback, options) is called.
CallRetry ==
    /\ rpc = "idle"
    /\ \E opts \in OptionSet : RetryEnter("script", opts)
    /\ UNCHANGED script
    /\ UNCHANGED <<mainVars, ledgerVars>>

\* addSlippage() not yet called directly.
NoSlippageCall == [amount |-> 0, slippageBps |-> 0, result |-> 0, called |-> FALSE]

\* retry() not yet called.
RetryIdle ==
    /\ options = [maxRetries |-> 0, initialDelay |-> DEFAULT_INITIAL_DELAY,
                  maxDelay |-> DEFAULT_MAX_DELAY,
                  backoffMultiplier |-> DEFAULT_BACKOFF_MULTIPLIER, debug |-> FALSE]
    /\ callback = "none"
    /\ rpc = "idle"
    /\ attempt = 0
    /\ delay = 0
    /\ lastError = Undefined
    /\ result = Undefined
    /\ thrown = Undefined
    /\ calls = 0
    /\ inFlight = 0
    /\ timers = 0
    /\ waits = <<>>
    /\ console = <<>>
    /\ cancelRequested = FALSE

\* main() not started; the ledger holds nothing for the owner.
MainIdle ==
    /\ loop = FALSE
    /\ envOk = TRUE
    /\ pc = "notStarted"
    /\ iteration = 0
    /\ userPositions = <<>>
    /\ position = Undefined
    /\ poolState = 0
    /\ depositQuote = [actualInputAmount |-> 0, outputAmount |-> 0]
    /\ failure = Undefined
    /\ exitCode = "running"
    /\ createMaxRetries = 0
    /\ slippage = NoSlippageCall
    /\ ledger = <<>>
    /\ view = <<>>
    /\ lag = 0
    /\ createLag = 0
    /\ stateVersion = 0
    /\ nextId = 1
    /\ txInFlight = {}
    /\ writes = <<>>
    /\ ops = <<>>
    /\ lastRead = <<>>

InitRetry ==
    /\ script \in [1..ScriptLen -> BOOLEAN]
    /\ RetryIdle
    /\ MainIdle

NextRetry ==
    \/ CallRetry
    \/ RetryAttempt
    \/ ScriptedCallbackSettles
    \/ TimerFires
    \/ RetryResume
    \/ RequestCancel

SpecRetry == InitRetry /\ [][NextRetry]_vars

\* ----------------------------------------------------------------- ledger
MaxLag == 9
MaxIterations == 2
MaxInitialPositions == 2
MaxPrice == 2

\* consts.ts as bundled in helpers.ts
SLIPPAGE_BPS == 100
DEPOSIT_AMOUNT == 1000000
ZERO_SLIPPAGE_THRESHOLD == 0
BPS_DENOMINATOR == 10000

\* The options createPosition() passes to retry(); the two bundled copies of
\* helpers.ts differ in maxRetries (8 at line 124, 3 at line 380).
CREATE_MAX_RETRIES == 8
CREATE_MAX_RETRIES_ALT == 3
CREATE_INITIAL_DELAY == 1000
CREATE_MAX_DELAY == 30000
CREATE_BACKOFF_MULTIPLIER == 2

CreateRetryOptions ==
    [maxRetries |-> createMaxRetries,
     initialDelay |-> CREATE_INITIAL_DELAY,
     maxDelay |-> CREATE_MAX_DELAY,
     backoffMultiplier |-> CREATE_BACKOFF_MULTIPLIER,
     debug |-> FALSE]

\* Deposit quotes cpAmm.getDepositQuote() may return (opaque to this code).
Quotes ==
    {[actualInputAmount |-> 150, outputAmount |-> 99],
     [actualInputAmount |-> 0, outputAmount |-> 12345]}

MaxStateVersion == 2
MaxAmount == 200
MaxBps == 120

\* helpers.ts 18-22: a UserPosition: its identity and the positionState read with it.
UserPosition(id, st) == [kind |-> "position", n |-> id, state |-> st]

\* What getPositionsByUser() returns for the listed identities: each position
\* with the state the ledger holds at the time of the read.
Snapshot(list) == [i \in 1..Len(list) |-> UserPosition(list[i], stateVersion)]

ConfigError == [kind |-> "environment variable is not set", n |-> 0]
SubmissionError == [kind |-> "transaction failed", n |-> 0]
NoPositionError == [kind |-> "Failed to obtain position", n |-> 0]
PositionNotFound == [kind |-> "Position not found after creation", n |-> 0]

StillExistsReportsOne(list) ==
    [kind |-> "Position still exists after close attempt", n |-> 1]

\* helpers.ts 198-200: the error names the number of positions the read found.
StillExistsError(list) ==
    [kind |-> "Position still exists after close attempt", n |-> Len(list)]

AddSlippageRoundsUp(amount, slippageBps) ==
    LET factor == BPS_DENOMINATOR + slippageBps
        high == amount \div BPS_DENOMINATOR
        low == amount % BPS_DENOMINATOR
    IN  high * factor + (low * factor + BPS_DENOMINATOR - 1) \div BPS_DENOMINATOR

\* helpers.ts 62-64: amount.muln(10_000 + slippageBps).divn(10_000). BN holds
\* the exact product whatever its size; here the product is formed on the two
\* parts of amount (amount = high * 10000 + low), which gives the same
\* quotient and keeps every intermediate value small.
AddSlippage(amount, slippageBps) ==
    LET factor == BPS_DENOMINATOR + slippageBps
        high == amount \div BPS_DENOMINATOR
        low == amount % BPS_DENOMINATOR
    IN  high * factor + (low * factor) \div BPS_DENOMINATOR

\* The amounts and basis points addSlippage() is called with.
SlippageAmounts == (0..MaxAmount) \cup {DEPOSIT_AMOUNT}

SlippageBpsValues == 0..MaxBps

\* A direct call addSlippage(amount, slippageBps); one call is followed per run,
\* the function keeps no state between calls.
CallAddSlippage ==
    /\ ~slippage.called
    /\ \E amount \in SlippageAmounts, slippageBps \in SlippageBpsValues :
          slippage' = [amount |-> amount,
                       slippageBps |-> slippageBps,
                       result |-> AddSlippage(amount, slippageBps),
                       called |-> TRUE]
    /\ UNCHANGED <<loop, envOk, pc, iteration, userPositions, position, poolState,
                   depositQuote, failure, exitCode, createMaxRetries>>
    /\ UNCHANGED ledgerVars
    /\ UNCHANGED retryVars

InitSlippage ==
    /\ script = [n \in 1..ScriptLen |-> FALSE]
    /\ RetryIdle
    /\ MainIdle

NextSlippage == CallAddSlippage

SpecSlippage == InitSlippage /\ [][NextSlippage]_vars

StillHasPositionsOffByOne(list) == Len(list) > 1

\* helpers.ts 197: userPositions.length > 0.
StillHasPositions(list) == Len(list) > 0

BreakNever == FALSE

\* main.ts 92-94: if (!loop) break.
ShouldBreak == ~loop

IsEmptyResultOffByOne(list) == Len(list) <= 1

\* helpers.ts 118: userPositions.length === 0.
IsEmptyResult(list) == Len(list) = 0

HasExistingPositionOffByOne(list) == Len(list) > 1

\* main.ts 49: userPositions.length > 0.
HasExistingPosition(list) == Len(list) > 0

LastListed(list) == list[Len(list)]

\* main.ts 53, helpers.ts 121: userPositions[0].
FirstListed(list) == list[1]

Op(o, n) == [op |-> o, n |-> n]

RemoveId(seq, id) == SelectSeq(seq, LAMBDA x : x # id)

\* cpAmm.getPositionsByUser(): returns what the read path shows; one more read
\* has gone by for the propagation of the last write.
ReadPositions ==
    /\ lastRead' = Snapshot(view)
    /\ lag' = IF lag > 0 THEN lag - 1 ELSE 0
    /\ view' = IF lag <= 1 THEN ledger ELSE view
    /\ ops' = Append(ops, Op("listPositions", Len(view)))

\* A write is confirmed: the ledger changes at once, the read path shows the
\* change after l more reads.
Confirm(newLedger, l) ==
    /\ ledger' = newLedger
    /\ lag' = l
    /\ view' = IF l = 0 THEN newLedger ELSE view

FailWithoutExit(e) ==
    /\ failure' = e
    /\ exitCode' = exitCode
    /\ pc' = "loopTop"

\* main.ts 87-90: catch, log, process.exit(1).
Fail(e) ==
    /\ failure' = e
    /\ exitCode' = 1
    /\ pc' = "exited"

\* main.ts 75-80: the position is checked, then sleep(1000) is awaited.
ObtainPosition(p) ==
    /\ position' = p
    /\ IF p = Undefined
          THEN Fail(NoPositionError) /\ UNCHANGED timers
          ELSE /\ timers' = timers + 1
               /\ pc' = "sleepBeforeClose"
               /\ UNCHANGED <<failure, exitCode>>

\* main.ts 36-46: an iteration starts: loadEnv(), the clients, the pre-check read is sent.
StartIteration ==
    /\ pc = "loopTop"
    /\ iteration < MaxIterations
    /\ iteration' = iteration + 1
    /\ writes' = <<>>
    /\ ops' = <<>>
    /\ IF envOk
          THEN pc' = "precheck" /\ UNCHANGED <<failure, exitCode>>
          ELSE Fail(ConfigError)
    /\ UNCHANGED <<loop, envOk, userPositions, position, poolState, depositQuote,
                   createMaxRetries, slippage>>
    /\ UNCHANGED <<ledger, view, lag, createLag, stateVersion, nextId, txInFlight, lastRead>>
    /\ UNCHANGED retryVars

\* main.ts 46-54: the pre-check read returns.
Precheck ==
    /\ pc = "precheck"
    /\ ReadPositions
    /\ userPositions' = Snapshot(view)
    /\ IF HasExistingPosition(Snapshot(view))
          THEN ObtainPosition(FirstListed(Snapshot(view)))
          ELSE /\ position' = Undefined
               /\ pc' = "fetchPoolForCreate"
               /\ UNCHANGED <<failure, exitCode, timers>>
    /\ UNCHANGED <<loop, envOk, iteration, poolState, depositQuote, createMaxRetries, slippage>>
    /\ UNCHANGED <<ledger, createLag, stateVersion, nextId, txInFlight, writes>>
    /\ UNCHANGED <<options, callback, script, rpc, attempt, delay, lastError, result,
                   thrown, calls, inFlight, waits, console, cancelRequested>>

\* main.ts 55-64: the pool state is fetched and the deposit quote computed.
FetchPoolForCreate ==
    /\ pc = "fetchPoolForCreate"
    /\ \E price \in 1..MaxPrice : poolState' = price
    /\ \E q \in Quotes : depositQuote' = q
    /\ ops' = Append(ops, Op("fetchPoolState", 0))
    /\ pc' = "createBuild"
    /\ UNCHANGED <<loop, envOk, iteration, userPositions, position, failure, exitCode,
                   createMaxRetries, slippage>>
    /\ UNCHANGED <<ledger, view, lag, createLag, stateVersion, nextId, txInFlight,
                   writes, lastRead>>
    /\ UNCHANGED retryVars

\* helpers.ts 82-112: the create transaction is built, signed and sent.
CreateSubmit ==
    /\ pc = "createBuild"
    /\ writes' = Append(writes,
          [kind |-> "create",
           position |-> nextId,
           poolState |-> poolState,
           tokenAAmountThreshold |->
               AddSlippage(depositQuote.actualInputAmount, SLIPPAGE_BPS),
           tokenBAmountThreshold |->
               AddSlippage(depositQuote.outputAmount, SLIPPAGE_BPS)])
    /\ nextId' = nextId + 1
    /\ txInFlight' = txInFlight \cup {"create"}
    /\ ops' = Append(ops, Op("submitCreate", 0))
    /\ pc' = "createInFlight"
    /\ UNCHANGED <<loop, envOk, iteration, userPositions, position, poolState,
                   depositQuote, failure, exitCode, createMaxRetries, slippage>>
    /\ UNCHANGED <<ledger, view, lag, createLag, stateVersion, lastRead>>
    /\ UNCHANGED retryVars

\* helpers.ts 108-129: sendAndConfirmTransaction resolves; retry() is called
\* with the read-positions callback.
CreateConfirmed ==
    /\ pc = "createInFlight"
    /\ \E l \in 0..MaxLag :
          /\ Confirm(Append(ledger, writes[Len(writes)].position), l)
          /\ createLag' = l
    /\ txInFlight' = txInFlight \ {"create"}
    /\ ops' = Append(ops, Op("confirmCreate", 0))
    /\ pc' = "createRetry"
    /\ RetryEnter("readPositions", CreateRetryOptions)
    /\ UNCHANGED script
    /\ UNCHANGED <<loop, envOk, iteration, userPositions, position, poolState,
                   depositQuote, failure, exitCode, createMaxRetries, slippage>>
    /\ UNCHANGED <<stateVersion, nextId, writes, lastRead>>

CreateRejectedResubmits ==
    /\ pc = "createInFlight"
    /\ txInFlight' = txInFlight \ {"create"}
    /\ ops' = Append(ops, Op("rejectCreate", 0))
    /\ pc' = "createBuild"
    /\ UNCHANGED <<loop, envOk, iteration, userPositions, position, poolState,
                   depositQuote, failure, exitCode, createMaxRetries, slippage>>
    /\ UNCHANGED <<ledger, view, lag, createLag, stateVersion, nextId, writes, lastRead>>
    /\ UNCHANGED retryVars

\* helpers.ts 103-112: signing or sendAndConfirmTransaction throws.
CreateRejected ==
    /\ pc = "createInFlight"
    /\ txInFlight' = txInFlight \ {"create"}
    /\ ops' = Append(ops, Op("rejectCreate", 0))
    /\ Fail(SubmissionError)
    /\ UNCHANGED <<loop, envOk, iteration, userPositions, position, poolState,
                   depositQuote, createMaxRetries, slippage>>
    /\ UNCHANGED <<ledger, view, lag, createLag, stateVersion, nextId, writes, lastRead>>
    /\ UNCHANGED retryVars

\* helpers.ts 116-122: the callback createPosition() gives to retry().
ReadPositionsCallbackSettles ==
    /\ rpc = "calling"
    /\ callback = "readPositions"
    /\ ReadPositions
    /\ IF IsEmptyResult(Snapshot(view))
          THEN OnRejected(PositionNotFound)
          ELSE OnResolved(FirstListed(Snapshot(view)))
    /\ UNCHANGED mainVars
    /\ UNCHANGED <<ledger, createLag, stateVersion, nextId, txInFlight, writes>>

\* helpers.ts 131, main.ts 66-80: retry() returned; createPosition() returns it.
CreateReturns ==
    /\ pc = "createRetry"
    /\ rpc = "returned"
    /\ ObtainPosition(result)
    /\ UNCHANGED <<loop, envOk, iteration, userPositions, poolState, depositQuote,
                   createMaxRetries, slippage>>
    /\ UNCHANGED ledgerVars
    /\ UNCHANGED <<options, callback, script, rpc, attempt, delay, lastError, result,
                   thrown, calls, inFlight, waits, console, cancelRequested>>

CreateThrowsReadsAgain ==
    /\ pc = "createRetry"
    /\ rpc = "thrown"
    /\ RetryEnter("readPositions", CreateRetryOptions)
    /\ UNCHANGED script
    /\ UNCHANGED mainVars
    /\ UNCHANGED ledgerVars

\* helpers.ts 115, main.ts 87-90: retry() threw; the error reaches main's catch.
CreateThrows ==
    /\ pc = "createRetry"
    /\ rpc = "thrown"
    /\ Fail(thrown)
    /\ UNCHANGED <<loop, envOk, iteration, userPositions, position, poolState,
                   depositQuote, createMaxRetries, slippage>>
    /\ UNCHANGED ledgerVars
    /\ UNCHANGED retryVars

\* main.ts 80-83: the sleep is over; the pool state is fetched for the close.
CloseFetchPool ==
    /\ pc = "sleepBeforeClose"
    /\ SleepSettled
    /\ \E price \in 1..MaxPrice : poolState' = price
    /\ ops' = Append(ops, Op("fetchPoolState", 0))
    /\ pc' = "closeBuild"
    /\ UNCHANGED <<loop, envOk, iteration, userPositions, position, depositQuote,
                   failure, exitCode, createMaxRetries, slippage>>
    /\ UNCHANGED <<ledger, view, lag, createLag, stateVersion, nextId, txInFlight,
                   writes, lastRead>>
    /\ UNCHANGED retryVars

\* helpers.ts 181-182: both thresholds of the close.
CloseThreshold == ZERO_SLIPPAGE_THRESHOLD

ClosePositionStateDefault(p) == 0

\* helpers.ts 180: positionState: position.positionState.
ClosePositionState(p) == p.state

CloseSubmitNotAwaited ==
    /\ pc = "closeBuild"
    /\ writes' = Append(writes,
          [kind |-> "close",
           position |-> position.n,
           positionState |-> ClosePositionState(position),
           poolState |-> poolState,
           tokenAAmountThreshold |-> CloseThreshold,
           tokenBAmountThreshold |-> CloseThreshold])
    /\ txInFlight' = txInFlight \cup {"close"}
    /\ ops' = Append(ops, Op("submitClose", 0))
    /\ pc' = "closeVerify"
    /\ UNCHANGED <<loop, envOk, iteration, userPositions, position, poolState,
                   depositQuote, failure, exitCode, createMaxRetries, slippage>>
    /\ UNCHANGED <<ledger, view, lag, createLag, stateVersion, nextId, lastRead>>
    /\ UNCHANGED retryVars

\* helpers.ts 173-193: the close transaction is built, signed and sent.
CloseSubmit ==
    /\ pc = "closeBuild"
    /\ writes' = Append(writes,
          [kind |-> "close",
           position |-> position.n,
           positionState |-> ClosePositionState(position),
           poolState |-> poolState,
           tokenAAmountThreshold |-> CloseThreshold,
           tokenBAmountThreshold |-> CloseThreshold])
    /\ txInFlight' = txInFlight \cup {"close"}
    /\ ops' = Append(ops, Op("submitClose", 0))
    /\ pc' = "closeInFlight"
    /\ UNCHANGED <<loop, envOk, iteration, userPositions, position, poolState,
                   depositQuote, failure, exitCode, createMaxRetries, slippage>>
    /\ UNCHANGED <<ledger, view, lag, createLag, stateVersion, nextId, lastRead>>
    /\ UNCHANGED retryVars

\* helpers.ts 189-196: sendAndConfirmTransaction resolves; the verifying read is sent.
CloseConfirmed ==
    /\ pc = "closeInFlight"
    /\ \E i \in 1..Len(ledger) : ledger[i] = position.n
    /\ \E l \in 0..MaxLag : Confirm(RemoveId(ledger, position.n), l)
    /\ txInFlight' = txInFlight \ {"close"}
    /\ ops' = Append(ops, Op("confirmClose", 0))
    /\ pc' = "closeVerify"
    /\ UNCHANGED <<loop, envOk, iteration, userPositions, position, poolState,
                   depositQuote, failure, exitCode, createMaxRetries, slippage>>
    /\ UNCHANGED <<createLag, stateVersion, nextId, writes, lastRead>>
    /\ UNCHANGED retryVars

\* helpers.ts 187-193: signing or sendAndConfirmTransaction throws.
CloseRejected ==
    /\ pc = "closeInFlight"
    /\ txInFlight' = txInFlight \ {"close"}
    /\ ops' = Append(ops, Op("rejectClose", 0))
    /\ Fail(SubmissionError)
    /\ UNCHANGED <<loop, envOk, iteration, userPositions, position, poolState,
                   depositQuote, createMaxRetries, slippage>>
    /\ UNCHANGED <<ledger, view, lag, createLag, stateVersion, nextId, writes, lastRead>>
    /\ UNCHANGED retryVars

CloseVerifyRetrying ==
    /\ pc = "closeVerify"
    /\ ReadPositions
    /\ IF StillHasPositions(Snapshot(view))
          THEN UNCHANGED <<failure, exitCode, pc>>
          ELSE /\ failure' = failure
               /\ IF ShouldBreak
                     THEN pc' = "exited" /\ exitCode' = 0
                     ELSE pc' = "loopTop" /\ exitCode' = exitCode
    /\ UNCHANGED <<loop, envOk, iteration, userPositions, position, poolState,
                   depositQuote, createMaxRetries, slippage>>
    /\ UNCHANGED <<ledger, createLag, stateVersion, nextId, txInFlight, writes>>
    /\ UNCHANGED retryVars

\* helpers.ts 196-201, main.ts 86-94: the verifying read returns; on an empty
\* list the iteration succeeds and main loops or returns.
CloseVerify ==
    /\ pc = "closeVerify"
    /\ ReadPositions
    /\ IF StillHasPositions(Snapshot(view))
          THEN Fail(StillExistsError(Snapshot(view)))
          ELSE /\ failure' = failure
               /\ IF ShouldBreak
                     THEN pc' = "exited" /\ exitCode' = 0
                     ELSE pc' = "loopTop" /\ exitCode' = exitCode
    /\ UNCHANGED <<loop, envOk, iteration, userPositions, position, poolState,
                   depositQuote, createMaxRetries, slippage>>
    /\ UNCHANGED <<ledger, createLag, stateVersion, nextId, txInFlight, writes>>
    /\ UNCHANGED retryVars

\* The ledger's state of the owner's positions changes (fees accrue, the price
\* moves): nothing of this program does it.
LedgerStateChanges ==
    /\ pc # "exited"
    /\ iteration >= 1
    /\ stateVersion < MaxStateVersion
    /\ stateVersion' = stateVersion + 1
    /\ UNCHANGED mainVars
    /\ UNCHANGED <<ledger, view, lag, createLag, nextId, txInFlight, writes, ops, lastRead>>
    /\ UNCHANGED retryVars

Init ==
    /\ script = [n \in 1..ScriptLen |-> FALSE]
    /\ RetryIdle
    /\ loop \in BOOLEAN
    /\ envOk \in BOOLEAN
    /\ pc = "loopTop"
    /\ iteration = 0
    /\ userPositions = <<>>
    /\ position = Undefined
    /\ poolState = 0
    /\ depositQuote = [actualInputAmount |-> 0, outputAmount |-> 0]
    /\ failure = Undefined
    /\ exitCode = "running"
    /\ createMaxRetries \in {CREATE_MAX_RETRIES, CREATE_MAX_RETRIES_ALT}
    /\ slippage = NoSlippageCall
    /\ \E n \in 0..MaxInitialPositions : ledger = [i \in 1..n |-> i]
    /\ view = ledger
    /\ lag = 0
    /\ createLag = 0
    /\ stateVersion = 0
    /\ nextId = Len(ledger) + 1
    /\ txInFlight = {}
    /\ writes = <<>>
    /\ ops = <<>>
    /\ lastRead = <<>>

Next ==
    \/ StartIteration
    \/ Precheck
    \/ FetchPoolForCreate
    \/ CreateSubmit
    \/ CreateConfirmed
    \/ CreateRejected
    \/ RetryAttempt
    \/ ReadPositionsCallbackSettles
    \/ TimerFires
    \/ RetryResume
    \/ CreateReturns
    \/ CreateThrows
    \/ CloseFetchPool
    \/ CloseSubmit
    \/ CloseConfirmed
    \/ CloseRejected
    \/ CloseVerify
    \/ LedgerStateChanges

Spec == Init /\ [][Next]_vars

\* ------------------------------------------------------ claims on retry()
RECURSIVE Pow(_, _)
Pow(b, e) == IF e <= 0 THEN 1 ELSE b * Pow(b, e - 1)

\* The delay before attempt k (k >= 2) as the claim states it, uncapped.
NominalDelay(k) == options.initialDelay * Pow(options.backoffMultiplier, k - 2)

Entered == rpc # "idle"

\* The first invocation of the scripted callback that succeeds (0: none does).
FirstSuccess ==
    IF \E n \in 1..ScriptLen : script[n]
      THEN CHOOSE n \in 1..ScriptLen : script[n] /\ \A m \in 1..(n - 1) : ~script[m]
      ELSE 0

\* C1: with maxRetries >= 0 and backoffMultiplier >= 1, retry() invokes the
\* callback at most maxRetries + 1 times, the wait before attempt k (k >= 2) is
\* min(initialDelay * backoffMultiplier^(k-2), maxDelay), and once the nominal
\* delay exceeds maxDelay every later wait is exactly maxDelay.
C1_AttemptsAndWaits ==
    (Entered /\ options.maxRetries >= 0 /\ options.backoffMultiplier >= 1) =>
        /\ calls <= options.maxRetries + 1
        /\ calls >= 1 => Len(waits) \in {calls - 1, calls}
        /\ \A k \in 2..(Len(waits) + 1) :
              waits[k - 1] = Min(NominalDelay(k), options.maxDelay)
        /\ \A j \in 2..(Len(waits) + 1) : \A k \in j..(Len(waits) + 1) :
              NominalDelay(j) > options.maxDelay => waits[k - 1] = options.maxDelay

\* C1 witness: three waits were made, the first two growing and below the cap,
\* the third capped, and every allowed attempt was used.
C1_Witness ==
    /\ Len(waits) >= 3
    /\ waits[1] < waits[2]
    /\ waits[2] < options.maxDelay
    /\ NominalDelay(4) > options.maxDelay
    /\ waits[3] = options.maxDelay
    /\ calls = options.maxRetries + 1

\* C2: when every allowed attempt fails, the error retry() throws is the error
\* of the last attempt (attempt maxRetries + 1), each attempt having its own error.
C2_LastErrorPropagated ==
    (rpc = "thrown" /\ callback = "script" /\ options.maxRetries >= 0) =>
        /\ calls = options.maxRetries + 1
        /\ \A n \in 1..calls : ~script[n]
        /\ thrown = CallbackError(options.maxRetries + 1)

\* C2 witness: three attempts failed, each with its own error, and retry() threw.
C2_Witness ==
    /\ rpc = "thrown"
    /\ options.maxRetries = 2
    /\ calls = 3
    /\ thrown = CallbackError(3)
    /\ thrown # CallbackError(1)

\* C3: retry() returns the result of the first attempt that succeeds; the
\* callback is never invoked after that attempt and no wait follows it,
\* whatever the later invocations would have produced.
C3_FirstSuccessReturned ==
    /\ [](Entered /\ callback = "script" /\ FirstSuccess # 0 =>
            /\ calls <= FirstSuccess
            /\ Len(waits) <= FirstSuccess - 1
            /\ rpc = "returned" =>
                  /\ result = CallbackValue(FirstSuccess)
                  /\ calls = FirstSuccess
                  /\ Len(waits) = FirstSuccess - 1
                  /\ timers = 0
                  /\ inFlight = 0)
    /\ [][rpc = "returned" => UNCHANGED <<rpc, result, calls, waits, timers>>]_vars

\* C3 witness: the second attempt succeeded and was returned although the third
\* invocation would have failed and the fourth would have given another value.
C3_Witness ==
    /\ rpc = "returned"
    /\ calls = 2
    /\ result = CallbackValue(2)
    /\ options.maxRetries >= 3
    /\ ~script[3]
    /\ script[4]

\* C4: with maxRetries = 0 retry() makes exactly one attempt, never sleeps, and
\* a failing attempt makes it throw that attempt's error at once.
C4_ZeroRetries ==
    (Entered /\ options.maxRetries = 0) =>
        /\ calls <= 1
        /\ waits = <<>>
        /\ timers = 0
        /\ rpc \in {"loop", "calling", "returned", "thrown"}
        /\ rpc \in {"returned", "thrown"} => calls = 1
        /\ (callback = "script" /\ rpc = "thrown") => thrown = CallbackError(1)
        /\ (callback = "script" /\ calls = 1 /\ inFlight = 0 /\ ~script[1]) =>
              rpc = "thrown"

\* C4 witness: maxRetries = 0, the single attempt failed and retry() threw its error.
C4_Witness ==
    /\ options.maxRetries = 0
    /\ rpc = "thrown"
    /\ calls = 1
    /\ thrown = CallbackError(1)
    /\ waits = <<>>

\* C5: attempts are strictly sequential: at most one invocation of the callback
\* is in flight, and an attempt is in flight only after the previous attempt
\* failed and the delay following it has fully elapsed.
C5_SequentialAttempts ==
    /\ inFlight <= 1
    /\ timers <= 1
    /\ (Entered /\ rpc = "calling") =>
          /\ inFlight = 1
          /\ timers = 0
          /\ Len(waits) = calls - 1
          /\ calls = attempt + 1
          /\ (callback = "script" /\ calls >= 2) => lastError = CallbackError(calls - 1)
    /\ (Entered /\ rpc # "calling") => inFlight = 0

\* C5 witness: the third attempt is in flight, after two failures and two waits.
C5_Witness ==
    /\ rpc = "calling"
    /\ calls = 3
    /\ Len(waits) = 2
    /\ inFlight = 1

\* C6 as stated: once cancellation is requested during the delay, retry() fails
\* at once with a cancellation-kind error and starts no further attempt.
C6_CancelAbortsWait ==
    cancelRequested =>
        \/ rpc = "sleeping"
        \/ rpc = "thrown" /\ thrown.kind = "cancelled"

\* C6 amended: retry() has no cancellation. A cancellation requested during the
\* delay changes nothing: retry() leaves the wait only when the timer has fired,
\* and then goes on to the next attempt; it throws nothing while waiting.
C6_NoCancellation ==
    [][(rpc = "sleeping" /\ cancelRequested) =>
          \/ rpc' = "sleeping" /\ UNCHANGED <<attempt, delay, calls, thrown, waits>>
          \/ /\ timers = 0
             /\ rpc' = "loop"
             /\ attempt' = attempt + 1
             /\ UNCHANGED <<calls, thrown, waits, lastError>>]_vars

\* C6 witness: an attempt is in flight after a cancellation was requested
\* during the wait before it.
C6_Witness ==
    /\ cancelRequested
    /\ rpc = "calling"
    /\ calls >= 2

\* ------------------------------------------------ claims on the lifecycle
RetryDone == rpc \in {"returned", "thrown"}

HasWrite(k) == \E i \in 1..Len(writes) : writes[i].kind = k

WriteOf(k) == writes[CHOOSE i \in 1..Len(writes) : writes[i].kind = k]

\* C7: after a confirmed create, when the read path stays empty for the first 2
\* reads, createPosition() returns the position after exactly 3 reads, its
\* retry budget (8, or 3) allowing 2 retries; in general it needs createLag + 1
\* reads, and when the budget allows fewer retries than the empty reads it
\* throws the retry's last error, "Position not found after creation", after
\* maxRetries + 1 reads.
C7_ReadUntilVisible ==
    (callback = "readPositions" /\ RetryDone) =>
        /\ (createLag = 2 /\ options.maxRetries >= 2) =>
              /\ rpc = "returned"
              /\ calls = 3
              /\ Len(waits) = 2
        /\ createLag <= options.maxRetries =>
              /\ rpc = "returned"
              /\ calls = createLag + 1
              /\ pc \in {"sleepBeforeClose", "closeBuild", "closeInFlight", "closeVerify"} =>
                    position = result
              /\ failure # PositionNotFound
        /\ createLag > options.maxRetries =>
              /\ rpc = "thrown"
              /\ thrown = PositionNotFound
              /\ calls = options.maxRetries + 1
              /\ pc # "createRetry" => (pc = "exited" /\ failure = PositionNotFound)

\* C7 witness: the position showed on the third read and createPosition()
\* returned it; the close is about to start.
C7_Witness ==
    /\ callback = "readPositions"
    /\ createLag = 2
    /\ rpc = "returned"
    /\ calls = 3
    /\ pc = "sleepBeforeClose"
    /\ HasWrite("create")
    /\ position.n = WriteOf("create").position

\* C8: every close write carries both token thresholds equal to zero whatever
\* the pool state, and when the read after the confirmed close returns N > 0
\* positions closePosition() fails with an error reporting exactly N.
C8_CloseZeroThresholdsAndCount ==
    /\ \A i \in 1..Len(writes) : writes[i].kind = "close" =>
          /\ writes[i].tokenAAmountThreshold = 0
          /\ writes[i].tokenBAmountThreshold = 0
    /\ (Len(ops) >= 2 /\ ops[Len(ops) - 1].op = "confirmClose"
           /\ ops[Len(ops)].op = "listPositions" /\ ops[Len(ops)].n > 0) =>
          /\ pc = "exited"
          /\ exitCode = 1
          /\ failure.kind = "Position still exists after close attempt"
          /\ failure.n = ops[Len(ops)].n
          /\ failure.n = Len(lastRead)
    /\ failure.kind = "Position still exists after close attempt" =>
          /\ Len(ops) >= 2
          /\ ops[Len(ops) - 1].op = "confirmClose"
          /\ ops[Len(ops)] = Op("listPositions", failure.n)

\* C8 witness: a close was sent at the higher pool price with zero thresholds
\* and the read after its confirmation found 2 positions, which the error reports.
C8_Witness ==
    /\ HasWrite("close")
    /\ WriteOf("close").poolState = MaxPrice
    /\ WriteOf("close").tokenAAmountThreshold = 0
    /\ failure.kind = "Position still exists after close attempt"
    /\ failure.n = 2
    /\ Len(lastRead) = 2

PrecheckFoundPosition ==
    /\ ops # <<>>
    /\ ops[1].op = "listPositions"
    /\ ops[1].n > 0

\* C9: when the pre-check read of an iteration shows a position, no create is
\* submitted in that iteration, the position passed to the close is the first
\* one listed, and the close is the only write.
C9_ExistingPositionSkipsCreate ==
    PrecheckFoundPosition =>
        /\ Len(userPositions) = ops[1].n
        /\ position = userPositions[1]
        /\ ~HasWrite("create")
        /\ \A i \in 1..Len(ops) : ops[i].op \notin {"submitCreate", "confirmCreate"}
        /\ Len(writes) <= 1
        /\ \A i \in 1..Len(writes) :
              /\ writes[i].kind = "close"
              /\ writes[i].position = userPositions[1].n
        /\ pc \in {"closeInFlight", "closeVerify"} => Len(writes) = 1

\* C9 witness: the pre-check listed two positions and the close of the first
\* one, the only write, has been confirmed.
C9_Witness ==
    /\ PrecheckFoundPosition
    /\ Len(userPositions) = 2
    /\ pc = "closeVerify"
    /\ Len(writes) = 1
    /\ writes[1].kind = "close"
    /\ writes[1].position = userPositions[1].n

\* The owner's ledger operations of the iteration, pool-state reads left out.
OwnerOps == SelectSeq(ops, LAMBDA e : e.op # "fetchPoolState")

\* One step of the order pre-check read, [submit create, confirm, reads until
\* a position shows], submit close, confirm, one read.
OrderStep(q, e) ==
    CASE q = "start" /\ e.op = "listPositions" ->
             IF e.n > 0 THEN "open" ELSE "noPosition"
      [] q = "noPosition" /\ e.op = "submitCreate" -> "creating"
      [] q = "creating" /\ e.op = "confirmCreate" -> "awaitingVisibility"
      [] q = "creating" /\ e.op = "rejectCreate" -> "end"
      [] q = "awaitingVisibility" /\ e.op = "listPositions" ->
             IF e.n > 0 THEN "open" ELSE "awaitingVisibility"
      [] q = "open" /\ e.op = "submitClose" -> "closing"
      [] q = "closing" /\ e.op = "confirmClose" -> "awaitingAbsence"
      [] q = "closing" /\ e.op = "rejectClose" -> "end"
      [] q = "awaitingAbsence" /\ e.op = "listPositions" -> "end"
      [] OTHER -> "bad"

RECURSIVE OrderState(_)
OrderState(log) ==
    IF log = <<>> THEN "start"
    ELSE OrderStep(OrderState(SubSeq(log, 1, Len(log) - 1)), log[Len(log)])

\* C10: the owner's ledger operations of a run follow the order submit create,
\* confirm, read until visible, submit close, confirm, read absence (the create
\* steps left out when the pre-check finds a position); at most one write is in
\* flight at any time; and a close is submitted only after a read has shown a
\* position, the created one when a create was made.
C10_StrictOrder ==
    /\ OrderState(OwnerOps) # "bad"
    /\ Cardinality(txInFlight) <= 1
    /\ ("create" \in txInFlight) = (OrderState(OwnerOps) = "creating")
    /\ ("close" \in txInFlight) = (OrderState(OwnerOps) = "closing")
    /\ HasWrite("close") =>
          /\ \E i \in 1..Len(ops) : ops[i].op = "listPositions" /\ ops[i].n > 0
          /\ HasWrite("create") =>
                /\ WriteOf("close").position = WriteOf("create").position
                /\ writes = <<WriteOf("create"), WriteOf("close")>>

\* C10 witness: a full cycle ran in order: create, confirm, an empty read, a
\* read showing the position, close, confirm, an empty read.
C10_Witness ==
    /\ Len(OwnerOps) >= 8
    /\ OwnerOps[2].op = "submitCreate"
    /\ OwnerOps[3].op = "confirmCreate"
    /\ OwnerOps[4] = Op("listPositions", 0)
    /\ OwnerOps[Len(OwnerOps) - 2].op = "submitClose"
    /\ OwnerOps[Len(OwnerOps) - 1].op = "confirmClose"
    /\ OwnerOps[Len(OwnerOps)] = Op("listPositions", 0)
    /\ OrderState(OwnerOps) = "end"
    /\ exitCode = 0

\* ---------------------------------------------------- claims C11 to C20
\* The iteration reported success: "Completed successfully" was logged, and
\* main returned or went back to the top of the loop.
SuccessReported ==
    \/ pc = "exited" /\ exitCode = 0
    \/ pc = "loopTop" /\ iteration >= 1

\* C11: a run reports success only if the read of the owner's positions made
\* after the confirmed close returned an empty list: wherever success is
\* reported, the last ledger operation is that read and it saw zero positions.
C11_SuccessOnlyAfterVerifiedAbsence ==
    SuccessReported =>
        /\ Len(ops) >= 3
        /\ ops[Len(ops) - 2].op = "submitClose"
        /\ ops[Len(ops) - 1].op = "confirmClose"
        /\ ops[Len(ops)] = Op("listPositions", 0)
        /\ lastRead = <<>>
        /\ failure = Undefined

\* C11 witness: success was reported after a create, a close and an empty
\* verifying read.
C11_Witness ==
    /\ SuccessReported
    /\ HasWrite("create")
    /\ HasWrite("close")
    /\ lastRead = <<>>
    /\ ledger = <<>>

LastOp == IF ops = <<>> THEN Op("none", 0) ELSE ops[Len(ops)]

\* C12: every error raised in an iteration (configuration, rejected write,
\* exhausted retry, positions left after the close) reaches main's catch, which
\* exits with code 1; the run stops there, in loop mode too: no further
\* iteration, no further ledger operation, no recovery. A run that ends has
\* either completed the open and close cycle or exited with code 1.
C12_ErrorsTerminateRun ==
    /\ [](failure # Undefined => (pc = "exited" /\ exitCode = 1))
    /\ []((~envOk /\ iteration >= 1) => failure = ConfigError)
    /\ [](LastOp.op \in {"rejectCreate", "rejectClose"} => failure = SubmissionError)
    /\ []((callback = "readPositions" /\ rpc = "thrown" /\ pc # "createRetry") =>
            failure = thrown)
    /\ []((Len(ops) >= 2 /\ ops[Len(ops) - 1].op = "confirmClose" /\ LastOp.n > 0) =>
            failure = [kind |-> "Position still exists after close attempt",
                       n |-> LastOp.n])
    /\ [](pc = "exited" =>
            \/ exitCode = 1 /\ failure # Undefined
            \/ /\ exitCode = 0
               /\ ~loop
               /\ failure = Undefined
               /\ HasWrite("close")
               /\ LastOp = Op("listPositions", 0))
    /\ [][pc = "exited" => UNCHANGED vars]_vars

\* C12 witness: in loop mode the first iteration created a position, the reads
\* never showed it, and the run ended with exit code 1, the position left on
\* the ledger and no second iteration started.
C12_Witness ==
    /\ loop
    /\ pc = "exited"
    /\ exitCode = 1
    /\ iteration = 1
    /\ failure = PositionNotFound
    /\ Len(ledger) = 1
    /\ ~HasWrite("close")

\* The place in ops of the latest read of the owner's positions (0: none yet).
LatestReadIndex ==
    IF \E i \in 1..Len(ops) : ops[i].op = "listPositions"
      THEN CHOOSE i \in 1..Len(ops) :
              /\ ops[i].op = "listPositions"
              /\ \A j \in (i + 1)..Len(ops) : ops[j].op # "listPositions"
      ELSE 0

ClosePending == pc \in {"sleepBeforeClose", "closeBuild", "closeInFlight"}

\* C13: the position state given to the close write is the one returned by
\* the latest read of the owner's positions: the pre-check read of the same
\* iteration when a position existed, the read that followed the confirmed
\* create otherwise. No write lies between that read and the close, and no
\* read of an earlier iteration is reused.
C13_CloseStateFromLatestRead ==
    /\ ClosePending =>
          /\ lastRead # <<>>
          /\ position = FirstListed(lastRead)
          /\ LatestReadIndex >= 1
          /\ \A j \in (LatestReadIndex + 1)..Len(ops) :
                ops[j].op \in {"fetchPoolState", "submitClose"}
          /\ HasWrite("create") =>
                \E c \in 1..(LatestReadIndex - 1) : ops[c].op = "confirmCreate"
          /\ ~HasWrite("create") => LatestReadIndex = 1
    /\ pc = "closeInFlight" =>
          /\ WriteOf("close").position = lastRead[1].n
          /\ WriteOf("close").positionState = lastRead[1].state

\* C13 witness: in the second iteration the close write carries the state
\* that the read after the second create returned, not the first iteration's.
C13_Witness ==
    /\ iteration = 2
    /\ pc = "closeInFlight"
    /\ HasWrite("create")
    /\ WriteOf("close").positionState = MaxStateVersion
    /\ lastRead[1].state = MaxStateVersion

\* C14: for non-negative amount and basis points addSlippage(amount, bps) is
\* floor(amount * (10000 + bps) / 10000), that is amount plus
\* floor(amount * bps / 10000); addSlippage(1000000, 100) = 1010000,
\* addSlippage(0, 100) = 0, and the result is never less than amount.
C14_AddSlippageIsFloor ==
    slippage.called =>
        /\ slippage.amount <= MaxAmount =>
              slippage.result =
                  (slippage.amount * (10000 + slippage.slippageBps)) \div 10000
        /\ slippage.result =
              slippage.amount + (slippage.amount * slippage.slippageBps) \div 10000
        /\ (slippage.amount = 1000000 /\ slippage.slippageBps = 100) =>
              slippage.result = 1010000
        /\ (slippage.amount = 0 /\ slippage.slippageBps = 100) => slippage.result = 0
        /\ slippage.result >= slippage.amount

\* C14 witness: addSlippage(150, 100) was called and gave 151, the fraction
\* of 151.5 cut off.
C14_Witness ==
    /\ slippage.called
    /\ slippage.amount = 150
    /\ slippage.slippageBps = 100
    /\ slippage.result = 151

\* C15: after the close write is confirmed closePosition reads the owner's
\* positions exactly once; when that one read is not empty the run ends with
\* the still-exists error and exit code 1, with no further read, even where
\* the next read would have been empty.
C15_SingleVerifyingRead ==
    \A i \in 1..Len(ops) :
        ops[i].op = "confirmClose" =>
            /\ Len(ops) <= i + 1
            /\ Len(ops) = i <=> pc = "closeVerify"
            /\ Len(ops) = i + 1 =>
                  /\ ops[i + 1].op = "listPositions"
                  /\ ops[i + 1].n = Len(lastRead)
                  /\ ops[i + 1].n > 0 =>
                        /\ pc = "exited"
                        /\ exitCode = 1
                        /\ failure = [kind |-> "Position still exists after close attempt",
                                      n |-> ops[i + 1].n]
                  /\ ops[i + 1].n = 0 => failure = Undefined

\* C15 witness: the close removed the owner's only position, the one
\* verifying read still listed it and the run failed; the ledger's answer to
\* the next read is already empty.
C15_Witness ==
    /\ pc = "exited"
    /\ exitCode = 1
    /\ failure.kind = "Position still exists after close attempt"
    /\ LastOp = Op("listPositions", 1)
    /\ ledger = <<>>
    /\ view = <<>>

\* The reads of the owner's positions made since the create was confirmed.
ReadsAfterCreate ==
    {i \in 1..Len(ops) :
        /\ ops[i].op = "listPositions"
        /\ \E c \in 1..(i - 1) : ops[c].op = "confirmCreate"}

\* C16: when every read of the creation retry budget (maxRetries + 1 of them)
\* found the owner's list empty, createPosition fails with 'Position not found
\* after creation'; the run exits with code 1, makes no further read and never
\* submits a close write.
C16_ExhaustedBudgetIsFatal ==
    /\ []((callback = "readPositions" /\ rpc = "thrown") =>
            /\ thrown = PositionNotFound
            /\ calls = createMaxRetries + 1
            /\ Cardinality(ReadsAfterCreate) = createMaxRetries + 1
            /\ \A i \in ReadsAfterCreate : ops[i].n = 0
            /\ LastOp = Op("listPositions", 0)
            /\ ~HasWrite("close")
            /\ pc \in {"createRetry", "exited"}
            /\ pc = "exited" => (failure = PositionNotFound /\ exitCode = 1))
    /\ [](failure = PositionNotFound =>
            (callback = "readPositions" /\ rpc = "thrown" /\ pc = "exited"))
    /\ [][failure = PositionNotFound => UNCHANGED <<ops, writes, pc, exitCode>>]_vars

\* C16 witness: the create was confirmed and is on the ledger, all nine reads
\* of the budget of eight retries came back empty, and the run has exited.
C16_Witness ==
    /\ pc = "exited"
    /\ exitCode = 1
    /\ failure = PositionNotFound
    /\ createMaxRetries = CREATE_MAX_RETRIES
    /\ calls = CREATE_MAX_RETRIES + 1
    /\ HasWrite("create")
    /\ Len(ledger) >= 1

OpCount(o) == Cardinality({i \in 1..Len(ops) : ops[i].op = o})

\* C17: a write the ledger rejects or does not confirm is not submitted again:
\* an iteration submits the create at most once and the close at most once,
\* the rejection is the iteration's last ledger operation and ends the run with
\* the submission error, and after a rejected create there is no visibility
\* read and no close submission.
C17_WritesNotRetried ==
    /\ OpCount("submitCreate") <= 1
    /\ OpCount("submitClose") <= 1
    /\ OpCount("submitCreate") = Cardinality({i \in 1..Len(writes) : writes[i].kind = "create"})
    /\ OpCount("submitClose") = Cardinality({i \in 1..Len(writes) : writes[i].kind = "close"})
    /\ \A i \in 1..Len(ops) :
          ops[i].op \in {"rejectCreate", "rejectClose"} =>
              /\ i = Len(ops)
              /\ pc = "exited"
              /\ exitCode = 1
              /\ failure = SubmissionError
              /\ txInFlight = {}
    /\ \A i \in 1..Len(ops) :
          ops[i].op = "rejectCreate" =>
              /\ ops[i - 1].op = "submitCreate"
              /\ \A j \in 1..Len(ops) : ops[j].op = "listPositions" => j = 1
              /\ OpCount("submitClose") = 0
              /\ position = Undefined
    /\ \A i \in 1..Len(ops) :
          ops[i].op = "rejectClose" => ops[i - 1].op = "submitClose"

\* C17 witness: the create write was submitted once and rejected; the run has
\* exited with nothing on the ledger and no read after the pre-check.
C17_Witness ==
    /\ LastOp.op = "rejectCreate"
    /\ pc = "exited"
    /\ OpCount("submitCreate") = 1
    /\ OpCount("listPositions") = 1
    /\ ledger = <<>>

\* The invocations of the scripted callback that have failed so far.
FailedAttempts ==
    Cardinality({n \in 1..calls : ~script[n] /\ (n < calls \/ rpc # "calling")})

\* The diagnostic lines retry() has written for failed attempts.
FailureLines ==
    Cardinality({i \in 1..Len(console) : console[i] = "Retry failed..."})

\* The number of invocations retry() makes, from the callback's outcomes and
\* maxRetries alone.
ExpectedCalls ==
    IF FirstSuccess # 0 /\ FirstSuccess <= options.maxRetries + 1
      THEN FirstSuccess
      ELSE IF options.maxRetries >= 0 THEN options.maxRetries + 1 ELSE 0

\* The waits between that many invocations, from the delay options alone.
ExpectedWaits(n) ==
    [k \in 1..(n - 1) |->
        Min(options.initialDelay * Pow(options.backoffMultiplier, k - 1),
            options.maxDelay)]

\* The attempts, waits and final result do not depend on the debug flag.
DebugFreeControlFlow ==
    /\ calls <= ExpectedCalls
    /\ Len(waits) <= ExpectedCalls
    /\ waits = ExpectedWaits(Len(waits) + 1)
    /\ rpc \in {"returned", "thrown"} =>
          /\ calls = ExpectedCalls
          /\ waits = ExpectedWaits(ExpectedCalls)
    /\ rpc = "returned" => result = CallbackValue(ExpectedCalls)
    /\ rpc = "thrown" =>
          thrown = IF ExpectedCalls = 0 THEN Undefined ELSE CallbackError(ExpectedCalls)

\* C18: retry() writes a diagnostic line for each failed attempt when debug
\* is on and none when debug is off, and the attempts, waits and final result
\* are the same whatever the debug flag.
C18_DiagnosticOnlyWhenDebug ==
    (Entered /\ callback = "script") =>
        /\ FailureLines = IF options.debug THEN FailedAttempts ELSE 0
        /\ DebugFreeControlFlow

\* The iteration in progress has reached Closed: its close was confirmed and
\* the verifying read was empty; nothing of it is still pending.
IterationClosed ==
    /\ Len(ops) >= 3
    /\ ops[Len(ops) - 2].op = "submitClose"
    /\ ops[Len(ops) - 1].op = "confirmClose"
    /\ LastOp = Op("listPositions", 0)
    /\ failure = Undefined
    /\ txInFlight = {}
    /\ timers = 0
    /\ inFlight = 0
    /\ rpc \in {"idle", "returned"}

\* C19: in loop mode an iteration starts only once the previous one has
\* reached Closed with nothing pending, and never after a fatal error; without
\* the loop flag main performs one iteration and then terminates.
C19_IterationsSerialized ==
    /\ [][iteration' # iteration =>
            /\ iteration' = iteration + 1
            /\ pc = "loopTop"
            /\ iteration >= 1 => (loop /\ IterationClosed)]_vars
    /\ [](failure # Undefined => pc = "exited")
    /\ [](~loop => iteration <= 1)
    /\ []((~loop /\ pc = "loopTop") => iteration = 0)
    /\ []((~loop /\ iteration = 1 /\ IterationClosed) => (pc = "exited" /\ exitCode = 0))
    /\ []((loop /\ pc = "exited") => exitCode = 1)

\* C19 witness: in loop mode the second iteration has sent its pre-check read
\* after the first one created, closed and verified.
C19_Witness ==
    /\ loop
    /\ iteration = 2
    /\ pc = "precheck"
    /\ ops = <<>>
    /\ ledger = <<>>
    /\ nextId >= 2

\* The pre-check read of this iteration listed at least two positions.
SeveralAtStart == Len(userPositions) >= 2

CloseAnswered == OpCount("confirmClose") = 1 /\ pc # "closeVerify"

\* C20 as stated: with N >= 2 positions at the start the driver closes only
\* the first listed one, the read after the confirmed close finds N - 1, and
\* the run ends, without success, with the still-exists error reporting N - 1.
C20_ReportsOneLess ==
    SeveralAtStart =>
        /\ ~SuccessReported
        /\ HasWrite("close") => WriteOf("close").position = userPositions[1].n
        /\ CloseAnswered =>
              /\ Len(lastRead) = Len(userPositions) - 1
              /\ pc = "exited"
              /\ exitCode = 1
              /\ failure = [kind |-> "Position still exists after close attempt",
                            n |-> Len(userPositions) - 1]

\* C20 amended: with N >= 2 positions at the start the driver submits one
\* close, for the first listed position, and no create; once it is confirmed
\* the ledger holds the other N - 1; the one read that follows finds N - 1,
\* or still all N when it does not show the close yet; the run never reports
\* success and ends with the still-exists error reporting the count that
\* read found.
C20_ReportsCountFound ==
    SeveralAtStart =>
        /\ ~SuccessReported
        /\ ~HasWrite("create")
        /\ OpCount("submitClose") <= 1
        /\ HasWrite("close") => WriteOf("close").position = userPositions[1].n
        /\ OpCount("confirmClose") = 1 =>
              ledger = [i \in 1..(Len(userPositions) - 1) |-> userPositions[i + 1].n]
        /\ CloseAnswered =>
              /\ Len(lastRead) \in {Len(userPositions) - 1, Len(userPositions)}
              /\ Len(lastRead) = Len(userPositions) - 1 =>
                    \A i \in 1..Len(lastRead) : lastRead[i].n = ledger[i]
              /\ Len(lastRead) = Len(userPositions) =>
                    \A i \in 1..Len(lastRead) : lastRead[i].n = userPositions[i].n
              /\ pc = "exited"
              /\ exitCode = 1
              /\ failure = [kind |-> "Position still exists after close attempt",
                            n |-> Len(lastRead)]

\* C20 witness: of two positions the first was closed, the read after the
\* close listed the second one alone, and the run failed reporting one.
C20_Witness ==
    /\ Len(userPositions) = 2
    /\ pc = "exited"
    /\ exitCode = 1
    /\ WriteOf("close").position = userPositions[1].n
    /\ ledger = <<userPositions[2].n>>
    /\ Len(lastRead) = 1
    /\ failure = [kind |-> "Position still exists after close attempt", n |-> 1]

====
